---- MODULE Spec2Model ----
(***************************************************************************)
(* Model of the interactive segmentation script run_image.py: the start-up *)
(* model call, the main display loop with its recompute gating, and the    *)
(* helper SAMV1Model.normalize_xy together with the pixel conversion of    *)
(* draw_normalized_polygons.                                               *)
(***************************************************************************)
EXTENDS Integers, Sequences, FiniteSets, TLC

\* ------------------------------------------------------------------ bounds
\* Largest number of foreground points in a prompt set.
MaxFg == 2
\* Number of candidate masks the model returns per call.
NumMasks == 2
\* Largest frame height / width explored for normalize_xy.
MaxDim == 6
\* Longest point list handed to normalize_xy.
MaxPts == 2
\* Brightness / contrast percentages handed to CheckerPattern: the multiples
\* of PctStep from -MaxPctSteps * PctStep to MaxPctSteps * PctStep.
PctStep == 5
MaxPctSteps == 24
\* Largest checker tile size, and largest frame height / width drawn on.
MaxTile == 3
MaxFrame == 3

\* ------------------------------------------------------------ value sets
None == 0
FgPoints == 1..MaxFg
\* Foreground point lists: point ids in increasing order, no repeats.
FgLists ==
    {s \in UNION {[1..n -> FgPoints] : n \in 0..MaxFg} :
        \A i \in 1..Len(s) : \A j \in 1..Len(s) : i < j => s[i] < s[j]}
BoxLists == {<<>>, <<"box">>}
BgLists == {<<>>, <<"bg">>}
\* Prompt sets <<boxes, fg points, bg points>>: all of them, and those made of
\* at most one foreground point and nothing else.
PromptSets == BoxLists \X FgLists \X BgLists
FgPromptSets == {<<>>} \X {s \in FgLists : Len(s) <= 1} \X {<<>>}
MaskIdx == 0..(NumMasks - 1)
\* Slider positions are kept as zero / non-zero.
ThreshVals == {0, 1}
SliderVals == {0, 1}
\* The image holds two regions a mask can cover: region 1 (large), region 2 (small).
Blobs == {1, 2}
\* Score of a region in a score map: 0 is below every threshold, 1 is above
\* threshold 0 only, 2 is above both thresholds.
BlankMap == <<0, 0>>
FullMap == <<2, 1>>

VARIABLES
    pc,                  \* "startup" | "loop" | "closed" | "crashed"
    err,                 \* exception that ended the script, "" if none
    sammodel,            \* class returned by make_sam_from_state_dict
    \* UI controls (values and change state since the last read)
    ui_boxes, ui_fg, ui_bg, ui_prompts_changed,
    ui_midx, ui_midx_changed,
    ui_thresh, ui_thresh_changed,
    ui_invert, ui_invert_changed,
    ui_pick_best, ui_pick_changed,
    \* script variables that live across loop iterations
    encoded_prompts, mask_preds, iou_preds,
    selected_mask_uint8,
    \* record of the last completed loop iteration
    tick,
    \* a call of normalize_xy and of the pixel conversion of its result
    nz,
    \* a CheckerPattern object and the last call made on it
    ck

uivars == <<ui_boxes, ui_fg, ui_bg, ui_prompts_changed, ui_midx, ui_midx_changed,
            ui_thresh, ui_thresh_changed, ui_invert, ui_invert_changed,
            ui_pick_best, ui_pick_changed>>
progvars == <<encoded_prompts, mask_preds, iou_preds, selected_mask_uint8>>
vars == <<pc, err, sammodel, uivars, progvars, tick, nz, ck>>


\* ------------------------------------------------------------- SAM model
\* Prompt encoding: determined by the three prompt lists.
EncodePrompts(box_list, fg_list, bg_list) ==
    [boxes |-> box_list, fg |-> fg_list, bg |-> bg_list]

\* Keyword arguments of generate_masks besides the two encodings.
GenerateMasksKwargs(model) ==
    IF model = "SAMV1Model" THEN {"mask_hint"}
    ELSE {"mask_hint", "blank_promptless_output"}

\* Whether a call of generate_masks with the keyword arguments kw is accepted.
AcceptsCall(model, kw) == kw \subseteq GenerateMasksKwargs(model)

\* Outputs of the mask decoder that are explored: the blank stack with equal
\* quality scores, and for each index k the stack whose k-th candidate covers
\* both regions and has the highest quality score.
BlankOutput ==
    [mask_preds |-> [i \in MaskIdx |-> BlankMap], iou_preds |-> [i \in MaskIdx |-> 0]]
DecoderOutputs ==
    {BlankOutput} \cup
    {[mask_preds |-> [i \in MaskIdx |-> IF i = k THEN FullMap ELSE BlankMap],
      iou_preds |-> [i \in MaskIdx |-> IF i = k THEN 1 ELSE 0]] : k \in MaskIdx}

\* generate_masks: what the mask decoder returns for the two encodings. With
\* blank_promptless_output set and no prompts the decoder's output is blanked,
\* which is one of the outputs explored for every encoding.
GenerateMasks(enc) == DecoderOutputs

\* Index of the highest quality score (the first one among equals).
GetBestMaskIndex(io) ==
    CHOOSE i \in MaskIdx :
        /\ \A j \in MaskIdx : io[j] <= io[i]
        /\ \A j \in MaskIdx : j < i => io[j] < io[i]

\* Quality scores on which the choice of a best mask is an error condition:
\* all candidates score the same (there is always at least one candidate).
AllEqual(io) == \A i \in MaskIdx : \A j \in MaskIdx : io[i] = io[j]

\* What get_best_mask_index can do on the scores io: return the index, or
\* raise SelectionError where the choice is an error condition.
BestMaskOutcomes(io) ==
    IF AllEqual(io) THEN {"index", "SelectionError"} ELSE {"index"}

\* ------------------------------------------------------- mask helpers
Unassigned == [assigned |-> FALSE, blobs |-> {}, inv |-> FALSE, pad |-> 0, rnd |-> 0]
NoContours == [blobs |-> {}, inv |-> FALSE, pad |-> 0, rnd |-> 0, simp |-> 0]

\* Thresholding of the selected score map: a region is foreground iff its
\* score is strictly above the cutoff.
CreateHiresMask(mp, idx, cutoff) ==
    [assigned |-> TRUE, blobs |-> {b \in Blobs : mp[idx][b] > cutoff},
     inv |-> FALSE, pad |-> 0, rnd |-> 0]

\* Contour extraction: ok is false when the mask is entirely background.
GetContoursFromMask(mask) ==
    [ok |-> mask.blobs # {},
     contours |-> [blobs |-> mask.blobs, inv |-> mask.inv, pad |-> mask.pad,
                   rnd |-> mask.rnd, simp |-> 0]]

\* The region a hint point lies in (point k lies in region k; a point with no
\* region of its own lies on background).
BlobAt(pt) == IF pt \in Blobs THEN pt ELSE 0
Largest(bs) == IF bs = {} THEN {} ELSE {CHOOSE b \in bs : \A c \in bs : b <= c}

\* Connected-component filter of the post-processor.
FilterComponents(bs, largest, hint) ==
    IF hint # None
    THEN (IF BlobAt(hint) \in bs THEN {BlobAt(hint)} ELSE Largest(bs))
    ELSE (IF largest THEN Largest(bs) ELSE bs)

\* MaskPostProcessor.__call__ under the configuration set by update().
PostProcess(mask, cfg, hint) ==
    LET bs == FilterComponents(mask.blobs, cfg.largest, hint) IN
    [contours |-> [blobs |-> bs, inv |-> cfg.invert, pad |-> cfg.padding,
                   rnd |-> cfg.rounding, simp |-> cfg.simplify],
     mask |-> [assigned |-> TRUE, blobs |-> bs, inv |-> cfg.invert,
               pad |-> cfg.padding, rnd |-> cfg.rounding]]


\* ------------------------------------------------------- loop iteration
NoSave == [done |-> FALSE, mask |-> Unassigned, contours |-> NoContours,
           boxes |-> <<>>, fg |-> <<>>, bg |-> <<>>]

\* Record kept while no iteration has completed since the last user input.
NoTick ==
    [valid |-> FALSE,
     need_prompt_encode |-> FALSE, need_mask_update |-> FALSE,
     box_tlbr_norm_list |-> <<>>, fg_xy_norm_list |-> <<>>, bg_xy_norm_list |-> <<>>,
     mselect_idx |-> 0, mthresh |-> 0, use_inverted_mask |-> FALSE,
     use_best_mask |-> FALSE, is_best_changed |-> FALSE,
     calls |-> <<>>, gen_arg |-> EncodePrompts(<<>>, <<>>, <<>>),
     ok_contours |-> FALSE, point_hint |-> None,
     final_mask_uint8 |-> Unassigned, mask_contours_norm |-> NoContours,
     saved |-> NoSave]

NeedMaskUpdateNoInvert(need_prompt_encode, is_mthresh_changed, is_invert_changed, is_mask_changed) ==
    need_prompt_encode \/ is_mthresh_changed \/ is_mask_changed
NeedMaskUpdateAlways(need_prompt_encode, is_mthresh_changed, is_invert_changed, is_mask_changed) ==
    TRUE
\* need_mask_update = any((need_prompt_encode, is_mthresh_changed,
\*                         is_invert_changed, is_mask_changed))
NeedMaskUpdate(need_prompt_encode, is_mthresh_changed, is_invert_changed, is_mask_changed) ==
    need_prompt_encode \/ is_mthresh_changed \/ is_invert_changed \/ is_mask_changed

NeedModelRunNegated(need_prompt_encode) == ~need_prompt_encode
NeedModelRunAlways(need_prompt_encode) == TRUE
\* Whether the model runs in an iteration.
NeedModelRun(need_prompt_encode) == need_prompt_encode

PointHintIgnoringBoxes(box_list, fg_list) ==
    IF Len(fg_list) = 1 THEN fg_list[1] ELSE None
\* The hint point handed to the post-processor.
PointHint(box_list, fg_list) ==
    IF Len(fg_list) = 1 /\ Len(box_list) = 0 THEN fg_list[1] ELSE None

\* The calls an iteration makes, in order.
ModelCalls(run, pick) ==
    IF run
    THEN <<"encode_prompts", "generate_masks">>
         \o (IF pick THEN <<"get_best_mask_index", "change_to">> ELSE <<>>)
    ELSE <<>>
MaskCalls(upd) ==
    IF upd THEN <<"create_hires_mask_uint8", "update_mask_previews">> ELSE <<>>
ContourCalls(ran_postprocessor) ==
    <<"get_contours_from_mask">>
    \o (IF ran_postprocessor THEN <<"mask_postprocessor">> ELSE <<>>)

FinalPairAlwaysPostProcessed(selected, cont, pp) ==
    [ran |-> TRUE, mask |-> pp.mask, contours |-> pp.contours]
\* Lines 344-354: the post-processor runs only on a mask that has contours;
\* otherwise the selected mask and the empty contour list go on unchanged.
FinalPair(selected, cont, pp) ==
    IF cont.ok
    THEN [ran |-> TRUE, mask |-> pp.mask, contours |-> pp.contours]
    ELSE [ran |-> FALSE, mask |-> selected, contours |-> cont.contours]

\* The mask handed to save_segmentation_results.
SavedMask(selected, final) == selected


\* ---------------------------------------------------------- normalize_xy
\* A binary floating-point value m / 2^e.
Flt(m, e) == [m |-> m, e |-> e]

\* n / d rounded to the nearest integer, ties to even.
RoundDiv(n, d) ==
    LET q == n \div d
        r == n % d
    IN IF 2 * r > d \/ (2 * r = d /\ q % 2 = 1) THEN q + 1 ELSE q

\* Smallest k with 2^k >= d.
RECURSIVE CeilLog2From(_, _)
CeilLog2From(d, k) == IF 2 ^ k >= d THEN k ELSE CeilLog2From(d, k + 1)
CeilLog2(d) == CeilLog2From(d, 0)

\* np.float32(1 / d): the float32 (24-bit significand) nearest to 1/d, d >= 1.
F32Recip(d) ==
    LET e == 23 + CeilLog2(d) IN Flt(RoundDiv(2 ^ e, d), e)

\* Rounding of m / 2^e to float32.
RoundF32(f) ==
    IF f.m < 2 ^ 24 THEN f
    ELSE LET s == CeilLog2(f.m + 1) - 24
         IN Flt(RoundDiv(f.m, 2 ^ s), f.e - s)

\* Product of a float32 scalar with a Python number k / 2^h: kept in double
\* precision (exact for these sizes) under NumPy's legacy promotion, rounded to
\* float32 under the newer promotion rules.
MulScalar(k, h, f, promote64) ==
    LET exact == Flt(k * f.m, f.e + h)
    IN IF promote64 THEN exact ELSE RoundF32(exact)

\* The convention a call uses: use_original_SAM_method defaults to True.
UseOriginalMethod(arg) == arg # "False"

\* Which axis length scales which coordinate.
XScaleDimSwapped(frame_h, frame_w) == frame_h
XScaleDim(frame_h, frame_w) == frame_w
YScaleDim(frame_h, frame_w) == frame_h

\* SAMV1Model.normalize_xy(xy_px_list, frame_shape, use_original_SAM_method).
NormalizeXY(xy_px_list, frame_h, frame_w, arg, promote64) ==
    LET xd == XScaleDim(frame_h, frame_w)
        yd == YScaleDim(frame_h, frame_w)
    IN
    IF UseOriginalMethod(arg)
    THEN [status |-> "ok",
          pts |-> [i \in 1..Len(xy_px_list) |->
                     [x |-> MulScalar(2 * xy_px_list[i].x + 1, 1, F32Recip(xd), promote64),
                      y |-> MulScalar(2 * xy_px_list[i].y + 1, 1, F32Recip(yd), promote64)]]]
    ELSE IF xd - 1 = 0 \/ yd - 1 = 0
    THEN [status |-> "ZeroDivisionError", pts |-> <<>>]
    ELSE [status |-> "ok",
          pts |-> [i \in 1..Len(xy_px_list) |->
                     [x |-> MulScalar(xy_px_list[i].x, 0, F32Recip(xd - 1), promote64),
                      y |-> MulScalar(xy_px_list[i].y, 0, F32Recip(yd - 1), promote64)]]]

\* np.int32(value * np.float32(scale)): the product (double precision for a
\* double-precision value, float32 otherwise) truncated to an integer.
ToPixel(f, scale, promote64) ==
    LET prod == IF promote64 THEN Flt(f.m * scale, f.e) ELSE RoundF32(Flt(f.m * scale, f.e))
    IN prod.m \div (2 ^ prod.e)

\* draw_normalized_polygons, lines 152-155: normalized points to pixel units.
NormToPx(pts, frame_h, frame_w, promote64) ==
    [i \in 1..Len(pts) |->
        [x |-> ToPixel(pts[i].x, frame_w - 1, promote64),
         y |-> ToPixel(pts[i].y, frame_h - 1, promote64)]]

NzIdle ==
    [phase |-> "idle", h |-> 1, w |-> 1, xy_px_list |-> <<>>, arg |-> "omitted",
     promote64 |-> TRUE, status |-> "none", pts |-> <<>>, px |-> <<>>]

\* --------------------------------------------------------- CheckerPattern
Min(a, b) == IF a <= b THEN a ELSE b
Max(a, b) == IF a >= b THEN a ELSE b
Abs(a) == IF a >= 0 THEN a ELSE -a

\* Lines 27-28: min(abs(pct), 100).
ForcePct(pct) == Min(Abs(pct), 100)

\* Lines 31-37: the two tile brightness values, computed in units of 1/10000
\* (255 * b / 100 and max_diff * c / 100 are whole numbers of such units);
\* round() rounds halves to even.
TileColors(brightness_pct, contrast_pct, flipped) ==
    LET mid_color_uint8 == 255 * brightness_pct * 100
        max_diff_uint8 == Min(255 * 10000 - mid_color_uint8, mid_color_uint8)
        real_diff_uint8 == (max_diff_uint8 * contrast_pct) \div 100
        color_a == RoundDiv(Max(Min(mid_color_uint8 - real_diff_uint8, 255 * 10000), 0), 10000)
        color_b == RoundDiv(Max(Min(mid_color_uint8 + real_diff_uint8, 255 * 10000), 0), 10000)
    IN IF flipped THEN <<color_b, color_a>> ELSE <<color_a, color_b>>

\* Images are sequences of rows; Height and Width of an image.
Height(img) == Len(img)
Width(img) == IF Len(img) = 0 THEN 0 ELSE Len(img[1])

\* cv2.resize(img, dsize=(w, h), interpolation=cv2.INTER_NEAREST_EXACT):
\* output pixel i takes source pixel floor((i + 0.5) * src / dst), counted from 0.
NearestExact(i, src, dst) == ((2 * (i - 1) + 1) * src) \div (2 * dst) + 1
ResizeNearestExact(img, h, w) ==
    LET src_h == Height(img)
        src_w == Width(img)
    IN [y \in 1..h |-> [x \in 1..w |->
          img[NearestExact(y, src_h, h)][NearestExact(x, src_w, w)]]]

\* Lines 40-42: the 2 x 2 tile ((a, b), (b, a)) resized to the checker size.
BasePattern(checker_size_px, color_a, color_b) ==
    ResizeNearestExact(<< <<color_a, color_b>>, <<color_b, color_a>> >>,
                       checker_size_px, checker_size_px)

\* cv2.copyMakeBorder(img, t, b, l, r, cv2.BORDER_WRAP).
CopyMakeBorderWrap(img, t, b, l, r) ==
    LET src_h == Height(img)
        src_w == Width(img)
    IN [y \in 1..(src_h + t + b) |-> [x \in 1..(src_w + l + r) |->
          img[((y - 1 - t) % src_h) + 1][((x - 1 - l) % src_w) + 1]]]

\* pattern[0:frame_h, 0:frame_w]
Crop(img, frame_h, frame_w) ==
    LET h == Min(frame_h, Height(img))
        w == Min(frame_w, Width(img))
    IN [y \in 1..h |-> [x \in 1..w |-> img[y][x]]]

\* Line 68: whether draw re-draws the full pattern.
NeedRedrawBothDiffer(curr_h, curr_w, frame_h, frame_w) ==
    curr_h # frame_h /\ curr_w # frame_w
NeedRedraw(curr_h, curr_w, frame_h, frame_w) ==
    curr_h # frame_h \/ curr_w # frame_w

\* Lines 71-82: the full pattern of the given size (its three equal colour
\* channels are kept as one).
FullPattern(base, frame_h, frame_w) ==
    LET base_h == Height(base)
        base_w == Width(base)
        x_pad == Max(frame_w - base_w, 0)
        y_pad == Max(frame_h - base_h, 0)
        l == x_pad \div 2
        t == y_pad \div 2
        r == x_pad - l
        b == y_pad - t
    IN Crop(CopyMakeBorderWrap(base, t, b, l, r), frame_h, frame_w)

\* CheckerPattern.draw(frame_h, frame_w) on the object obj: the cached pattern
\* after the call (which is also what the call returns) and whether it was
\* re-drawn.
Draw(obj, frame_h, frame_w) ==
    LET redraw == NeedRedraw(Height(obj.full_pattern), Width(obj.full_pattern),
                             frame_h, frame_w)
    IN [redrawn |-> redraw,
        full_pattern |-> IF redraw THEN FullPattern(obj.base, frame_h, frame_w)
                         ELSE obj.full_pattern]

NoCall == [op |-> "none"]
CkIdle ==
    [phase |-> "idle", checker_size_px |-> 0, brightness_pct |-> 0, contrast_pct |-> 0,
     flipped |-> FALSE, forced_brightness |-> 0, forced_contrast |-> 0,
     color_a |-> 0, color_b |-> 0, base |-> <<>>, full_pattern |-> <<>>, last |-> NoCall]

\* CheckerPattern.__init__ on the arguments held by obj.
CheckerInit(obj) ==
    LET b == ForcePct(obj.brightness_pct)
        c == ForcePct(obj.contrast_pct)
        colors == TileColors(b, c, obj.flipped)
        base == BasePattern(obj.checker_size_px, colors[1], colors[2])
    IN [obj EXCEPT !.phase = "built",
                   !.forced_brightness = b, !.forced_contrast = c,
                   !.color_a = colors[1], !.color_b = colors[2],
                   !.base = base, !.full_pattern = base]

\* Bitwise operations on 8-bit values.
RECURSIVE BitAndFrom(_, _, _)
BitAndFrom(a, b, n) ==
    IF n = 0 THEN 0
    ELSE (a % 2) * (b % 2) + 2 * BitAndFrom(a \div 2, b \div 2, n - 1)
BitAnd(a, b) == BitAndFrom(a, b, 8)
BitNot(a) == 255 - a
BitOr(a, b) == a + b - BitAnd(a, b)

\* Lines 105-108 for one channel of one pixel: pattern value p, frame value f,
\* mask value m.
SuperimposePixelMaskSwapped(p, f, m) ==
    BitOr(BitAnd(p, m), BitAnd(f, BitNot(m)))
SuperimposePixel(p, f, m) ==
    BitOr(BitAnd(p, BitNot(m)), BitAnd(f, m))

\* cv2.cvtColor(img, cv2.COLOR_GRAY2BGR).
GrayToBGR(img) ==
    LET h == Height(img)
        w == Width(img)
    IN [y \in 1..h |-> [x \in 1..w |-> <<img[y][x], img[y][x], img[y][x]>>]]

\* Lines 95-102: the mask brought to the frame's size and to three channels.
\* A mask is [ndim, img], img holding numbers (ndim 2) or triples (ndim 3).
MatchedMask(mask, frame_h, frame_w) ==
    LET is_same_size == Height(mask.img) = frame_h /\ Width(mask.img) = frame_w
        sized == IF ~is_same_size THEN ResizeNearestExact(mask.img, frame_h, frame_w)
                 ELSE mask.img
    IN IF mask.ndim # 3 THEN GrayToBGR(sized) ELSE sized

\* CheckerPattern.superimpose(other_frame, mask) on the object obj: the image
\* returned and the cached pattern after the call.
Superimpose(obj, other_frame, mask) ==
    LET frame_h == Height(other_frame)
        frame_w == Width(other_frame)
        drawn == Draw(obj, frame_h, frame_w)
        checker_pattern == GrayToBGR(drawn.full_pattern)
        mask3 == MatchedMask(mask, frame_h, frame_w)
    IN [out |-> [y \in 1..frame_h |-> [x \in 1..frame_w |-> [c \in 1..3 |->
                   SuperimposePixel(checker_pattern[y][x][c], other_frame[y][x][c],
                                    mask3[y][x][c])]]],
        redrawn |-> drawn.redrawn,
        full_pattern |-> drawn.full_pattern]

\* ---------------------------------------------------------------- start
StartupKwargs == {"blank_promptless_output"}
TickKwargs == {"mask_hint", "blank_promptless_output"}

MainInit ==
    /\ pc = "startup"
    /\ err = ""
    /\ ui_boxes = <<>> /\ ui_fg = <<>> /\ ui_bg = <<>>
    /\ ui_prompts_changed = FALSE
    /\ ui_midx = 0 /\ ui_midx_changed = FALSE
    /\ ui_thresh = 0 /\ ui_thresh_changed = FALSE
    /\ ui_invert = FALSE /\ ui_invert_changed = FALSE
    /\ ui_pick_best = FALSE /\ ui_pick_changed = FALSE
    /\ encoded_prompts = EncodePrompts(<<>>, <<>>, <<>>)
    /\ mask_preds = [i \in MaskIdx |-> BlankMap]
    /\ iou_preds = [i \in MaskIdx |-> 0]
    /\ selected_mask_uint8 = Unassigned
    /\ tick = NoTick

\* make_sam_from_state_dict decides the class of the model object.
Init ==
    /\ MainInit
    /\ sammodel \in {"SAMV1Model", "other"}
    /\ nz = NzIdle
    /\ ck = CkIdle

\* Lines 183-260: the prompt-less model call, then the UI is built and the
\* initial prompts, if any, are loaded.
Startup(prompt_sets) ==
    /\ pc = "startup"
    /\ encoded_prompts' = EncodePrompts(<<>>, <<>>, <<>>)
    /\ IF AcceptsCall(sammodel, StartupKwargs)
       THEN /\ \E o \in GenerateMasks(encoded_prompts') :
                 /\ mask_preds' = o.mask_preds
                 /\ iou_preds' = o.iou_preds
            /\ \E p \in prompt_sets :
                 /\ ui_boxes' = p[1] /\ ui_fg' = p[2] /\ ui_bg' = p[3]
            /\ ui_midx' \in MaskIdx
            \* what the controls report on their first read is the UI's business
            /\ ui_prompts_changed' \in BOOLEAN
            /\ ui_midx_changed' \in BOOLEAN
            /\ ui_thresh_changed' \in BOOLEAN
            /\ ui_invert_changed' \in BOOLEAN
            /\ ui_pick_changed' \in BOOLEAN
            /\ pc' = "loop" /\ err' = ""
            /\ UNCHANGED <<ui_thresh, ui_invert, ui_pick_best>>
       ELSE /\ pc' = "crashed" /\ err' = "TypeError"
            /\ UNCHANGED <<mask_preds, iou_preds, uivars>>
    /\ UNCHANGED <<sammodel, selected_mask_uint8, tick, nz, ck>>

\* ------------------------------------------------------------ user input
\* Input arrives while the window is shown; a control reports a change on its
\* next read iff its value differs from the one read before.
UserEditPrompts(prompt_sets) ==
    /\ pc = "loop" /\ ~ui_prompts_changed
    /\ \E p \in prompt_sets :
         /\ p # <<ui_boxes, ui_fg, ui_bg>>
         /\ ui_boxes' = p[1] /\ ui_fg' = p[2] /\ ui_bg' = p[3]
    /\ ui_prompts_changed' = TRUE
    /\ tick' = NoTick
    /\ UNCHANGED <<pc, err, sammodel, nz, ck, progvars,
                   ui_midx, ui_midx_changed, ui_thresh, ui_thresh_changed,
                   ui_invert, ui_invert_changed, ui_pick_best, ui_pick_changed>>

UserSelectMask ==
    /\ pc = "loop" /\ ~ui_midx_changed
    /\ \E i \in MaskIdx : i # ui_midx /\ ui_midx' = i
    /\ ui_midx_changed' = TRUE
    /\ tick' = NoTick
    /\ UNCHANGED <<pc, err, sammodel, nz, ck, progvars,
                   ui_boxes, ui_fg, ui_bg, ui_prompts_changed,
                   ui_thresh, ui_thresh_changed,
                   ui_invert, ui_invert_changed, ui_pick_best, ui_pick_changed>>

UserSetThreshold ==
    /\ pc = "loop" /\ ~ui_thresh_changed
    /\ \E t \in ThreshVals : t # ui_thresh /\ ui_thresh' = t
    /\ ui_thresh_changed' = TRUE
    /\ UNCHANGED <<pc, err, sammodel, nz, ck, progvars, tick,
                   ui_boxes, ui_fg, ui_bg, ui_prompts_changed,
                   ui_midx, ui_midx_changed,
                   ui_invert, ui_invert_changed, ui_pick_best, ui_pick_changed>>

UserToggleInvert ==
    /\ pc = "loop" /\ ~ui_invert_changed
    /\ ui_invert' = ~ui_invert
    /\ ui_invert_changed' = TRUE
    /\ tick' = NoTick
    /\ UNCHANGED <<pc, err, sammodel, nz, ck, progvars,
                   ui_boxes, ui_fg, ui_bg, ui_prompts_changed,
                   ui_midx, ui_midx_changed, ui_thresh, ui_thresh_changed,
                   ui_pick_best, ui_pick_changed>>

UserTogglePickBest ==
    /\ pc = "loop"
    /\ ui_pick_best' = ~ui_pick_best
    /\ ui_pick_changed' = ~ui_pick_changed
    /\ tick' = NoTick
    /\ UNCHANGED <<pc, err, sammodel, nz, ck, progvars,
                   ui_boxes, ui_fg, ui_bg, ui_prompts_changed,
                   ui_midx, ui_midx_changed, ui_thresh, ui_thresh_changed,
                   ui_invert, ui_invert_changed>>


\* ------------------------------------------------------------ main loop
\* One iteration of the display loop (lines 306-391) with the values the
\* untracked controls hold when read, whether Save was clicked and whether the
\* window asked to close.
Tick(use_largest_contour, msimplify, mrounding, mpadding, save_clicked, req_break) ==
    /\ pc = "loop"
    /\ LET need_prompt_encode == ui_prompts_changed
           box_list == ui_boxes
           fg_list == ui_fg
           bg_list == ui_bg
           is_mask_changed == ui_midx_changed
           idx == ui_midx
           is_invert_changed == ui_invert_changed
           use_inverted_mask == ui_invert
           use_best_mask == ui_pick_best
           is_mthresh_changed == ui_thresh_changed
           mthresh == ui_thresh
           cfg == [largest |-> use_largest_contour, simplify |-> msimplify,
                   rounding |-> mrounding, padding |-> mpadding,
                   invert |-> use_inverted_mask]
           run == NeedModelRun(need_prompt_encode)
           enc == IF run THEN EncodePrompts(box_list, fg_list, bg_list)
                  ELSE encoded_prompts
           type_error == run /\ ~AcceptsCall(sammodel, TickKwargs)
       IN
       \E o \in (IF run /\ ~type_error
                 THEN GenerateMasks(enc)
                 ELSE {[mask_preds |-> mask_preds, iou_preds |-> iou_preds]}) :
         \E best_outcome \in (IF run /\ ~type_error /\ use_best_mask
                              THEN BestMaskOutcomes(o.iou_preds)
                              ELSE {"index"}) :
         LET pick == run /\ use_best_mask
             selection_error == best_outcome = "SelectionError"
             best == GetBestMaskIndex(o.iou_preds)
             need_mask_update ==
                 NeedMaskUpdate(need_prompt_encode, is_mthresh_changed,
                                is_invert_changed, is_mask_changed)
             selected == IF need_mask_update
                         THEN CreateHiresMask(o.mask_preds, idx, mthresh)
                         ELSE selected_mask_uint8
             name_error == ~selected.assigned
             cont == GetContoursFromMask(selected)
             point_hint == PointHint(box_list, fg_list)
             pp == PostProcess(selected, cfg, point_hint)
             fp == FinalPair(selected, cont, pp)
             final == fp.mask
             contours == fp.contours
             saves == save_clicked /\ ~req_break
             rec == [valid |-> TRUE,
                     need_prompt_encode |-> need_prompt_encode,
                     need_mask_update |-> need_mask_update,
                     box_tlbr_norm_list |-> box_list,
                     fg_xy_norm_list |-> fg_list,
                     bg_xy_norm_list |-> bg_list,
                     mselect_idx |-> idx, mthresh |-> mthresh,
                     use_inverted_mask |-> use_inverted_mask,
                     use_best_mask |-> use_best_mask,
                     is_best_changed |-> ui_pick_changed,
                     calls |-> ModelCalls(run, pick) \o MaskCalls(need_mask_update)
                               \o ContourCalls(fp.ran)
                               \o <<"update_main_display_image">>
                               \o (IF saves THEN <<"save_segmentation_results">>
                                   ELSE <<>>),
                     gen_arg |-> enc,
                     ok_contours |-> cont.ok,
                     point_hint |-> IF fp.ran THEN point_hint ELSE None,
                     final_mask_uint8 |-> final,
                     mask_contours_norm |-> contours,
                     saved |-> IF saves
                               THEN [done |-> TRUE,
                                     mask |-> SavedMask(selected, final),
                                     contours |-> contours,
                                     boxes |-> box_list, fg |-> fg_list,
                                     bg |-> bg_list]
                               ELSE NoSave]
         IN
         \* every control read clears that control's change state
         /\ ui_prompts_changed' = FALSE
         /\ ui_thresh_changed' = FALSE
         /\ ui_invert_changed' = FALSE
         /\ ui_pick_changed' = FALSE
         /\ UNCHANGED <<ui_boxes, ui_fg, ui_bg, ui_thresh, ui_invert, ui_pick_best>>
         /\ encoded_prompts' = enc
         /\ IF type_error
            THEN \* generate_masks() got an unexpected keyword argument
                 /\ pc' = "crashed" /\ err' = "TypeError"
                 /\ ui_midx' = ui_midx /\ ui_midx_changed' = FALSE
                 /\ UNCHANGED <<mask_preds, iou_preds, selected_mask_uint8>>
                 /\ tick' = [NoTick EXCEPT !.calls = <<"encode_prompts", "generate_masks">>,
                                           !.gen_arg = enc]
            ELSE IF selection_error
            THEN \* nothing in the loop catches what get_best_mask_index raises
                 /\ pc' = "crashed" /\ err' = "SelectionError"
                 /\ mask_preds' = o.mask_preds
                 /\ iou_preds' = o.iou_preds
                 /\ ui_midx' = ui_midx /\ ui_midx_changed' = FALSE
                 /\ UNCHANGED selected_mask_uint8
                 /\ tick' = [NoTick EXCEPT !.calls = <<"encode_prompts", "generate_masks",
                                                      "get_best_mask_index">>,
                                           !.gen_arg = enc]
            ELSE /\ mask_preds' = o.mask_preds
                 /\ iou_preds' = o.iou_preds
                 /\ ui_midx' = IF pick THEN best ELSE ui_midx
                 /\ ui_midx_changed' = (pick /\ best # idx)
                 /\ IF name_error
                    THEN \* name 'selected_mask_uint8' is not defined
                         /\ pc' = "crashed" /\ err' = "NameError"
                         /\ selected_mask_uint8' = selected_mask_uint8
                         /\ tick' = [NoTick EXCEPT !.calls = ModelCalls(run, pick)]
                    ELSE /\ selected_mask_uint8' = selected
                         /\ pc' = IF req_break THEN "closed" ELSE "loop"
                         /\ err' = ""
                         /\ tick' = rec
    /\ UNCHANGED <<sammodel, nz, ck>>

\* Defaults of the untracked controls (lines 229, 235-237): Largest Only on,
\* the three contour sliders at 0.
TickStep ==
    \E req_break \in BOOLEAN :
        Tick(TRUE, 0, 0, 0, FALSE, req_break)

\* Settings <<simplify, rounding, padding>> of the three contour sliders that
\* are explored: none moved, one moved, all moved.
SliderSettings ==
    {t \in SliderVals \X SliderVals \X SliderVals :
        t[1] + t[2] + t[3] \in {0, 1, 3}}

\* The same iteration with the untracked controls at any of these settings.
TickAnyControls ==
    \E use_largest_contour \in BOOLEAN, sliders \in SliderSettings,
       save_clicked \in BOOLEAN :
        Tick(use_largest_contour, sliders[1], sliders[2], sliders[3], save_clicked, FALSE)

\* The loop under prompt, mask-selection, threshold, invert and pick-best input.
Next ==
    \/ Startup(FgPromptSets)
    \/ UserEditPrompts(FgPromptSets)
    \/ UserSelectMask
    \/ UserSetThreshold
    \/ UserToggleInvert
    \/ UserTogglePickBest
    \/ TickStep

Spec == Init /\ [][Next]_vars

\* The loop under prompt input and every setting of the post-processing controls.
NextPost ==
    \/ Startup(PromptSets)
    \/ UserEditPrompts(PromptSets)
    \/ TickAnyControls

SpecPost == Init /\ [][NextPost]_vars


\* ------------------------------------------- normalize_xy and its inverse
\* The n pixels of a frame along its diagonal from (x, y), wrapping around.
PixelRun(x, y, n, frame_h, frame_w) ==
    [i \in 1..n |-> [x |-> (x + i - 1) % frame_w, y |-> (y + i - 1) % frame_h]]

InitNorm ==
    /\ MainInit
    /\ sammodel = "SAMV1Model"
    /\ ck = CkIdle
    /\ \E frame_h \in 1..MaxDim, frame_w \in 1..MaxDim :
       \E x \in 0..(frame_w - 1), y \in 0..(frame_h - 1), n \in 0..MaxPts :
       \E arg \in {"omitted", "True", "False"}, promote64 \in BOOLEAN :
         nz = [phase |-> "input", h |-> frame_h, w |-> frame_w,
               xy_px_list |-> PixelRun(x, y, n, frame_h, frame_w),
               arg |-> arg, promote64 |-> promote64,
               status |-> "none", pts |-> <<>>, px |-> <<>>]

NormalizeCall ==
    /\ nz.phase = "input"
    /\ LET r == NormalizeXY(nz.xy_px_list, nz.h, nz.w, nz.arg, nz.promote64)
       IN nz' = [nz EXCEPT !.phase = IF r.status = "ok" THEN "normalized" ELSE "raised",
                           !.status = r.status, !.pts = r.pts]
    /\ UNCHANGED <<pc, err, sammodel, uivars, progvars, tick, ck>>

PixelCall ==
    /\ nz.phase = "normalized"
    /\ nz' = [nz EXCEPT !.phase = "pixels",
                        !.px = NormToPx(nz.pts, nz.h, nz.w, nz.promote64)]
    /\ UNCHANGED <<pc, err, sammodel, uivars, progvars, tick, ck>>

NextNorm ==
    \/ NormalizeCall
    \/ PixelCall

SpecNorm == InitNorm /\ [][NextNorm]_vars


\* ------------------------------------------------ CheckerPattern.__init__
PctInputs == {k * PctStep : k \in (-MaxPctSteps)..MaxPctSteps}

InitPattern ==
    /\ MainInit
    /\ sammodel = "SAMV1Model"
    /\ nz = NzIdle
    /\ \E size \in 1..MaxTile, b \in PctInputs, c \in PctInputs, f \in BOOLEAN :
         ck = [CkIdle EXCEPT !.phase = "args", !.checker_size_px = size,
                             !.brightness_pct = b, !.contrast_pct = c, !.flipped = f]

Construct ==
    /\ ck.phase = "args"
    /\ ck' = CheckerInit(ck)
    /\ UNCHANGED <<pc, err, sammodel, uivars, progvars, tick, nz>>

NextPattern == Construct

SpecPattern == InitPattern /\ [][NextPattern]_vars


\* ------------------------------- CheckerPattern.draw and .superimpose
\* Default percentages of CheckerPattern.__init__.
DefaultBrightnessPct == 75
DefaultContrastPct == 35

\* Frames and masks the calls are made on, each given by a few parameters.
\* Masks tried with a frame: contents, number of dimensions, and size relative
\* to the frame.
MaskCases ==
    {<<"zeros", 2, "same">>, <<"ones", 2, "same">>, <<"ones", 2, "smaller">>,
     <<"checks", 2, "same">>, <<"checks", 2, "larger">>,
     <<"soft", 2, "same">>, <<"soft", 3, "same">>, <<"soft", 3, "larger">>}
MaskSize(rel, frame_h, frame_w) ==
    CASE rel = "same" -> <<frame_h, frame_w>>
      [] rel = "smaller" -> <<1, 1>>
      [] OTHER -> <<frame_h + 1, frame_w + 2>>
TileSizes == {2, MaxTile}
\* Sizes (height, width) of the frames given to superimpose.
FrameSizes == {<<1, 1>>, <<2, MaxFrame>>, <<MaxFrame, MaxFrame - 1>>}
FrameImage(h, w) ==
    [y \in 1..h |-> [x \in 1..w |-> [c \in 1..3 |->
        (y * 37 + x * 11 + c * 5 + 90) % 256]]]
MaskValue(kind, y, x, c) ==
    CASE kind = "zeros" -> 0
      [] kind = "ones" -> 255
      [] kind = "checks" -> (IF (x + y) % 2 = 0 THEN 255 ELSE 0)
      [] OTHER -> (y * 100 + x * 50 + c * 7 + 15) % 256
MaskImage(kind, ndim, h, w) ==
    [ndim |-> ndim,
     img |-> [y \in 1..h |-> [x \in 1..w |->
                IF ndim = 3 THEN [c \in 1..3 |-> MaskValue(kind, y, x, c)]
                ELSE MaskValue(kind, y, x, 0)]]]

InitDraw ==
    /\ MainInit
    /\ sammodel = "SAMV1Model"
    /\ nz = NzIdle
    /\ \E size \in TileSizes :
         ck = CheckerInit([CkIdle EXCEPT !.checker_size_px = size,
                                         !.brightness_pct = DefaultBrightnessPct,
                                         !.contrast_pct = DefaultContrastPct])

DrawCall(frame_h, frame_w) ==
    /\ ck.phase = "built"
    /\ LET d == Draw(ck, frame_h, frame_w)
       IN ck' = [ck EXCEPT !.full_pattern = d.full_pattern,
                           !.last = [op |-> "draw", frame_h |-> frame_h, frame_w |-> frame_w,
                                     redrawn |-> d.redrawn,
                                     result_h |-> Height(d.full_pattern),
                                     result_w |-> Width(d.full_pattern)]]
    /\ UNCHANGED <<pc, err, sammodel, uivars, progvars, tick, nz>>

SuperimposeCall(frame_h, frame_w, kind, ndim, mask_h, mask_w) ==
    /\ ck.phase = "built"
    /\ LET r == Superimpose(ck, FrameImage(frame_h, frame_w),
                            MaskImage(kind, ndim, mask_h, mask_w))
       IN ck' = [ck EXCEPT !.full_pattern = r.full_pattern,
                           !.last = [op |-> "superimpose",
                                     frame_h |-> frame_h, frame_w |-> frame_w,
                                     kind |-> kind, ndim |-> ndim,
                                     mask_h |-> mask_h, mask_w |-> mask_w,
                                     redrawn |-> r.redrawn,
                                     out |-> r.out]]
    /\ UNCHANGED <<pc, err, sammodel, uivars, progvars, tick, nz>>

DrawStep == \E frame_h \in 1..MaxFrame, frame_w \in 1..MaxFrame : DrawCall(frame_h, frame_w)
SuperimposeStep ==
    \E frame \in FrameSizes, m \in MaskCases :
        LET size == MaskSize(m[3], frame[1], frame[2])
        IN SuperimposeCall(frame[1], frame[2], m[1], m[2], size[1], size[2])

NextDraw ==
    \/ DrawStep
    \/ SuperimposeStep

SpecDraw == InitDraw /\ [][NextDraw]_vars


\* ================================================================ claims
Has(calls, name) == \E i \in 1..Len(calls) : calls[i] = name

\* ------------------------------------------------------------ normalize_xy
\* A float m / 2^e in units of 2^-20, rounded down, and the exact fraction
\* a / b in the same units; the two agree when they differ by at most one unit.
Fix20(f) == f.m \div (2 ^ (f.e - 20))
CloseTo(f, a, b) ==
    LET d == Fix20(f) - ((a * (2 ^ 20)) \div b)
    IN -1 <= d /\ d <= 1
NzReturned == nz.phase \in {"normalized", "pixels"}
NzEdge == nz.arg = "False"

\* C6: normalize_xy maps each pixel (x, y) of an h x w frame to
\* ((x + 0.5) / w, (y + 0.5) / h) under the center convention and to
\* (x / (w - 1), y / (h - 1)) under the edge convention (up to float32
\* rounding; the edge formula needs w > 1 and h > 1), keeps the order and
\* number of the points, and uses the center convention when the caller does
\* not say which one.
C6_NormalizeFormulas ==
    NzReturned =>
        /\ Len(nz.pts) = Len(nz.xy_px_list)
        /\ \A i \in 1..Len(nz.pts) :
             IF NzEdge
             THEN /\ nz.w > 1 /\ nz.h > 1
                  /\ CloseTo(nz.pts[i].x, nz.xy_px_list[i].x, nz.w - 1)
                  /\ CloseTo(nz.pts[i].y, nz.xy_px_list[i].y, nz.h - 1)
             ELSE /\ CloseTo(nz.pts[i].x, 2 * nz.xy_px_list[i].x + 1, 2 * nz.w)
                  /\ CloseTo(nz.pts[i].y, 2 * nz.xy_px_list[i].y + 1, 2 * nz.h)

\* Two distinct points of a non-square frame normalized by a call that leaves
\* the convention out.
C6_Witness ==
    /\ nz.phase = "normalized" /\ nz.arg = "omitted"
    /\ nz.h # nz.w /\ Len(nz.pts) = 2
    /\ nz.xy_px_list[1] # nz.xy_px_list[2]
    /\ nz.xy_px_list[2].x # nz.xy_px_list[2].y

InUnit(f) == 0 <= f.m /\ f.m <= 2 ^ f.e

\* C7: for every h >= 1 and w >= 1, a dimension of 1 pixel included, and every
\* pixel of the frame, normalize_xy returns, under either convention, without
\* raising, and both components of every returned point lie in [0, 1].
C7_FiniteInUnitRange ==
    nz.phase \in {"normalized", "raised", "pixels"} =>
        /\ nz.status = "ok"
        /\ \A i \in 1..Len(nz.pts) : InUnit(nz.pts[i].x) /\ InUnit(nz.pts[i].y)

\* An edge-convention call on a frame one pixel wide or high has raised.
C7_Witness ==
    /\ nz.phase = "raised" /\ nz.status = "ZeroDivisionError"
    /\ NzEdge /\ (nz.h = 1 \/ nz.w = 1)

\* Where the call returns, only the upper end of the range can be exceeded, and
\* only by an edge-convention product kept in double precision.
C7_RangeWhereReturned ==
    NzReturned =>
        \A i \in 1..Len(nz.pts) :
            /\ 0 <= nz.pts[i].x.m /\ 0 <= nz.pts[i].y.m
            /\ (~NzEdge \/ ~nz.promote64) => InUnit(nz.pts[i].x) /\ InUnit(nz.pts[i].y)

AbsDiff(a, b) == IF a >= b THEN a - b ELSE b - a

\* C8: for every frame size and every pixel p of the frame, normalizing p and
\* converting the result back to pixel units (scaling by (w - 1, h - 1) and
\* truncating) gives a pixel within 1 of p in each coordinate, under either
\* convention.
C8_RoundTripWithinOne ==
    nz.phase \in {"raised", "pixels"} =>
        /\ nz.phase = "pixels"
        /\ Len(nz.px) = Len(nz.xy_px_list)
        /\ \A i \in 1..Len(nz.px) :
             /\ AbsDiff(nz.px[i].x, nz.xy_px_list[i].x) <= 1
             /\ AbsDiff(nz.px[i].y, nz.xy_px_list[i].y) <= 1

\* A pixel of a frame with a dimension of 1 whose edge-convention call raised,
\* so that there is nothing to convert back.
C8_Witness ==
    /\ nz.phase = "raised" /\ NzEdge
    /\ Len(nz.xy_px_list) >= 1 /\ nz.px = <<>>

\* Where normalize_xy returns, the round trip is within one pixel.
C8_RoundTripWhereReturned ==
    nz.phase = "pixels" =>
        /\ Len(nz.px) = Len(nz.xy_px_list)
        /\ \A i \in 1..Len(nz.px) :
             /\ AbsDiff(nz.px[i].x, nz.xy_px_list[i].x) <= 1
             /\ AbsDiff(nz.px[i].y, nz.xy_px_list[i].y) <= 1


\* ------------------------------------------------------------- main loop
\* The change flags the next iteration will read.
AnyFlag == ui_prompts_changed \/ ui_thresh_changed \/ ui_invert_changed \/ ui_midx_changed
ModelCalled(calls) == Has(calls, "encode_prompts") \/ Has(calls, "generate_masks")
MaskRecomputed(calls) ==
    Has(calls, "create_hires_mask_uint8") \/ Has(calls, "update_mask_previews")

\* C1: in every iteration the prompt encoding and the mask generation run iff
\* the prompts-changed flag read at its start is set; when they run the
\* prompts are encoded first and the masks are generated from that encoding;
\* when the flag is clear the model is not called and the stored mask and
\* quality predictions stay as they were.
C1_ModelRunsIffPromptsChanged ==
    [][TickStep =>
        LET calls == tick'.calls IN
        /\ Has(calls, "encode_prompts") <=> ui_prompts_changed
        /\ Has(calls, "generate_masks") <=> ui_prompts_changed
        /\ ui_prompts_changed =>
             /\ calls[1] = "encode_prompts" /\ calls[2] = "generate_masks"
             /\ encoded_prompts' = EncodePrompts(ui_boxes, ui_fg, ui_bg)
             /\ tick'.gen_arg = encoded_prompts'
        /\ ~ui_prompts_changed =>
             /\ mask_preds' = mask_preds /\ iou_preds' = iou_preds
             /\ encoded_prompts' = encoded_prompts
    ]_vars

\* An iteration that read changed prompts has run the model on them.
C1_Witness ==
    /\ tick.valid /\ tick.need_prompt_encode
    /\ tick.fg_xy_norm_list # <<>>
    /\ tick.calls[1] = "encode_prompts" /\ tick.calls[2] = "generate_masks"
    /\ tick.gen_arg = EncodePrompts(<<>>, tick.fg_xy_norm_list, <<>>)

\* C2 (as stated): the mask display - thresholded mask creation and contour
\* extraction - is recomputed only in an iteration where one of the four
\* flags (prompts, threshold, invert, selection) is set; with none of them
\* set neither the thresholded mask creation nor the contour extraction runs.
C2_Original ==
    [][TickStep /\ ~AnyFlag =>
        /\ ~MaskRecomputed(tick'.calls)
        /\ ~Has(tick'.calls, "get_contours_from_mask")
    ]_vars

\* C2 (amended): the thresholded mask creation runs only in an iteration
\* where one of the four flags is set, and in every such iteration that runs
\* to its end; the contour extraction is not gated: it runs in every iteration
\* that runs to its end, and with no flag set it runs on the selected mask
\* left by the latest recompute; the post-processor runs whenever the
\* extraction reports contours.
C2_ThresholdGatedContoursNot ==
    [][TickStep =>
        LET calls == tick'.calls IN
        /\ MaskRecomputed(calls) => AnyFlag
        /\ (AnyFlag /\ tick'.valid) =>
             /\ Has(calls, "create_hires_mask_uint8")
             /\ Has(calls, "update_mask_previews")
        /\ tick'.valid => Has(calls, "get_contours_from_mask")
        /\ (~AnyFlag /\ selected_mask_uint8.assigned) =>
             /\ tick'.valid /\ Has(calls, "get_contours_from_mask")
             /\ selected_mask_uint8' = selected_mask_uint8
        /\ Has(calls, "mask_postprocessor") <=> (tick'.valid /\ tick'.ok_contours)
    ]_vars

\* An iteration with no flag set that extracted contours and post-processed
\* them without re-creating the thresholded mask.
C2_Witness ==
    /\ tick.valid /\ ~tick.need_mask_update
    /\ ~MaskRecomputed(tick.calls)
    /\ Has(tick.calls, "get_contours_from_mask")
    /\ Has(tick.calls, "mask_postprocessor")

\* C3 (as stated): a change of the pick-best mode between two iterations, with
\* every other control unchanged, sets the selection-changed flag and so
\* triggers a mask display recompute in the next iteration.
C3_Original ==
    [][TickStep /\ ui_pick_changed /\ ~AnyFlag => MaskRecomputed(tick'.calls)]_vars

\* C3 (amended): the loop discards the change state of the pick-best button.
\* An iteration that reads a changed pick-best mode and no set flag calls
\* neither the model nor the mask recompute and leaves the mask selection and
\* the selected mask alone; the best mask is looked up exactly in the
\* iterations where the prompts changed while the mode is on.
C3_PickBestAloneChangesNothing ==
    [][TickStep =>
        /\ (ui_pick_changed /\ ~AnyFlag) =>
             /\ ~ModelCalled(tick'.calls)
             /\ ~MaskRecomputed(tick'.calls)
             /\ ~Has(tick'.calls, "change_to")
             /\ ui_midx' = ui_midx /\ ~ui_midx_changed'
             /\ selected_mask_uint8' = selected_mask_uint8
        /\ Has(tick'.calls, "get_best_mask_index")
             <=> (ui_prompts_changed /\ ui_pick_best)
    ]_vars

\* An iteration that read the pick-best mode switched on, with no flag set,
\* and recomputed nothing.
C3_Witness ==
    /\ tick.valid /\ tick.is_best_changed /\ tick.use_best_mask
    /\ ~tick.need_mask_update
    /\ ~MaskRecomputed(tick.calls) /\ ~ModelCalled(tick.calls)

\* The tracked values an iteration is about to read equal those the previous
\* iteration read, the threshold aside.
SameAsLastRead ==
    /\ tick.valid
    /\ <<ui_boxes, ui_fg, ui_bg>>
         = <<tick.box_tlbr_norm_list, tick.fg_xy_norm_list, tick.bg_xy_norm_list>>
    /\ ui_midx = tick.mselect_idx
    /\ ui_invert = tick.use_inverted_mask

\* C4: an iteration that reads the same prompts, mask selection, invert state
\* and threshold as the previous one reads every change flag clear and calls
\* neither the model nor the mask recompute; if only the threshold differs,
\* the threshold flag is set and the prompts, invert and selection flags are
\* clear.
C4_ChangeTracking ==
    [][TickStep /\ SameAsLastRead =>
        IF ui_thresh = tick.mthresh
        THEN /\ ~AnyFlag
             /\ ~ModelCalled(tick'.calls) /\ ~MaskRecomputed(tick'.calls)
        ELSE /\ ui_thresh_changed
             /\ ~ui_prompts_changed /\ ~ui_invert_changed /\ ~ui_midx_changed
             /\ ~ModelCalled(tick'.calls)
    ]_vars

\* An iteration that followed a threshold change alone: it re-created the
\* thresholded mask without calling the model.
C4_Witness ==
    /\ tick.valid /\ tick.mthresh = 1
    /\ ~tick.need_prompt_encode /\ tick.need_mask_update
    /\ ~ModelCalled(tick.calls) /\ MaskRecomputed(tick.calls)


\* C5: the hint point handed to the post-processor is the single foreground
\* point iff the prompt set has exactly one foreground point and no box; with
\* no foreground point, with two or more, or with a box, the hint is absent.
C5_PointHint ==
    (tick.valid /\ Has(tick.calls, "mask_postprocessor")) =>
        LET n_fg == Len(tick.fg_xy_norm_list)
            n_box == Len(tick.box_tlbr_norm_list)
        IN
        /\ (n_fg = 1 /\ n_box = 0) => tick.point_hint = tick.fg_xy_norm_list[1]
        /\ (n_fg = 0 \/ n_fg >= 2 \/ n_box >= 1) => tick.point_hint = None
        /\ tick.point_hint # None => (n_fg = 1 /\ n_box = 0)

\* The post-processor ran with the only foreground point as its hint, a
\* background point being present as well.
C5_Witness ==
    /\ tick.valid /\ Has(tick.calls, "mask_postprocessor")
    /\ tick.fg_xy_norm_list = <<2>> /\ tick.box_tlbr_norm_list = <<>>
    /\ tick.bg_xy_norm_list # <<>>
    /\ tick.point_hint = 2

\* C9: a saved result holds the prompts of the iteration together with its
\* final contour and its final mask, so that the saved mask and the saved
\* contour are those of the same post-processing pass.
C9_SavedIsFinal ==
    tick.saved.done =>
        /\ tick.saved.boxes = tick.box_tlbr_norm_list
        /\ tick.saved.fg = tick.fg_xy_norm_list
        /\ tick.saved.bg = tick.bg_xy_norm_list
        /\ tick.saved.contours = tick.mask_contours_norm
        /\ tick.saved.mask = tick.final_mask_uint8

\* A save in an iteration whose post-processor kept one of the two regions of
\* the selected mask: the saved contour is the final one, the saved mask is not.
C9_Witness ==
    /\ tick.saved.done /\ Has(tick.calls, "mask_postprocessor")
    /\ tick.final_mask_uint8.blobs = {1}
    /\ tick.saved.contours.blobs = {1}
    /\ tick.saved.mask.blobs = {1, 2}

\* What a save does hand over: the prompts, the final contour and the selected
\* mask as it was before post-processing.
C9_SavedIsSelected ==
    tick.saved.done =>
        /\ tick.saved.contours = tick.mask_contours_norm
        /\ tick.saved.mask = selected_mask_uint8

\* C10: when the selected mask an iteration hands to the contour extraction
\* is entirely background, the extraction reports no contours, the post-processor is not called,
\* the final mask is the selected mask unchanged, the display is updated and
\* the iteration ends without an exception, the loop going on to the next
\* iteration unless the window asked to close.
C10_AllBackgroundMask ==
    [][(TickStep /\ Has(tick'.calls, "get_contours_from_mask")
                 /\ selected_mask_uint8'.assigned /\ selected_mask_uint8'.blobs = {}) =>
        /\ tick'.valid /\ ~tick'.ok_contours
        /\ ~Has(tick'.calls, "mask_postprocessor")
        /\ tick'.final_mask_uint8 = selected_mask_uint8'
        /\ tick'.mask_contours_norm.blobs = {}
        /\ Has(tick'.calls, "update_main_display_image")
        /\ err' = "" /\ pc' \in {"loop", "closed"}
    ]_vars

\* An iteration under an inverted display whose selected mask was entirely
\* background went through and left the loop running.
C10_Witness ==
    /\ pc = "loop" /\ tick.valid
    /\ selected_mask_uint8.assigned /\ selected_mask_uint8.blobs = {}
    /\ tick.use_inverted_mask
    /\ ~tick.ok_contours /\ tick.final_mask_uint8 = selected_mask_uint8


\* C16: every call of generate_masks the script makes, the start-up call and
\* the one in the loop, passes only keyword arguments the model's
\* generate_masks accepts, so that no such call fails on an unknown argument.
C16_GenerateMasksCallsAccepted ==
    pc # "startup" => (pc \in {"loop", "closed"} \/ err # "TypeError")

\* The start-up call on a SAMV1Model has ended the script with a TypeError
\* before the loop was entered.
C16_Witness ==
    /\ sammodel = "SAMV1Model" /\ "blank_promptless_output" \notin GenerateMasksKwargs(sammodel)
    /\ pc = "crashed" /\ err = "TypeError"
    /\ ~tick.valid /\ ~selected_mask_uint8.assigned

\* C18: no iteration reads an unassigned selected mask - the first iteration
\* recomputes it whatever the controls report on their first read - and an
\* iteration with no flag set keeps the selected mask of the latest recompute.
C18_SelectedMaskAssigned ==
    [][TickStep =>
        /\ err' # "NameError"
        /\ selected_mask_uint8'.assigned
        /\ ~AnyFlag => selected_mask_uint8' = selected_mask_uint8
    ]_vars

\* A first iteration whose controls reported no change has ended the script:
\* selected_mask_uint8 was read before any assignment.
C18_Witness ==
    /\ pc = "crashed" /\ err = "NameError"
    /\ ~selected_mask_uint8.assigned
    /\ ~Has(tick.calls, "create_hires_mask_uint8")
    /\ ~Has(tick.calls, "get_contours_from_mask")

\* Once assigned, the selected mask is only ever replaced by a recompute: an
\* iteration with no flag set leaves it as it was, post-processing or not.
C18_SelectedKeptWithoutFlags ==
    [][(TickStep /\ ~AnyFlag /\ selected_mask_uint8.assigned) =>
        /\ selected_mask_uint8' = selected_mask_uint8
        /\ err' # "NameError"
    ]_vars


\* C17: at the end of every iteration the selected mask it showed and
\* post-processed was built from the index the mask selector then holds; in
\* an iteration where the prompts changed with pick-best on, the mask is built
\* from the best index of the fresh quality scores, not from the index read
\* before the model ran.
C17_SelectedFromCurrentIndex ==
    tick.valid =>
        selected_mask_uint8 = CreateHiresMask(mask_preds, ui_midx, tick.mthresh)

\* An iteration with pick-best on moved the selector to the best index, which
\* has a mask covering both regions, and showed the blank mask of the index
\* read before the model ran.
C17_Witness ==
    /\ tick.valid /\ tick.need_prompt_encode /\ tick.use_best_mask
    /\ Has(tick.calls, "change_to")
    /\ ui_midx = GetBestMaskIndex(iou_preds) /\ ui_midx # tick.mselect_idx
    /\ selected_mask_uint8.blobs = {}
    /\ CreateHiresMask(mask_preds, ui_midx, tick.mthresh).blobs = {1, 2}

\* The selected mask of an iteration is built from the index read at its
\* start; when the selector was moved after that read, the selector reports
\* a change to the next iteration.
C17_SelectedFromIndexRead ==
    tick.valid =>
        /\ selected_mask_uint8
             = CreateHiresMask(mask_preds, tick.mselect_idx, tick.mthresh)
        /\ ui_midx # tick.mselect_idx => ui_midx_changed


\* C11: when the choice of the best mask fails in an iteration (SelectionError
\* on equal quality scores), the failure stays within the selection step: the
\* mask selector falls back to index 0, the rest of the iteration runs and the
\* loop keeps running.
C11_SelectionFailureConfined ==
    [][(TickStep /\ err' = "SelectionError") =>
        /\ pc' \in {"loop", "closed"}
        /\ ui_midx' = 0
        /\ tick'.valid /\ Has(tick'.calls, "update_main_display_image")
    ]_vars

\* With pick-best on, the model returned equal quality scores, the choice of
\* the best mask raised, and the script ended at that call.
C11_Witness ==
    /\ pc = "crashed" /\ err = "SelectionError"
    /\ ui_pick_best /\ AllEqual(iou_preds)
    /\ tick.calls = <<"encode_prompts", "generate_masks", "get_best_mask_index">>

\* C12: when an iteration fails with an error, its output is not produced, the
\* previous display stays, and the loop can run a following iteration with the
\* stored predictions, the selected mask and the prompt encoding as they were
\* before the failed iteration.
C12_FailedTickLeavesState ==
    [][(TickStep /\ err' # "") =>
        /\ pc' = "loop"
        /\ encoded_prompts' = encoded_prompts
        /\ mask_preds' = mask_preds /\ iou_preds' = iou_preds
        /\ selected_mask_uint8' = selected_mask_uint8
    ]_vars

\* The script has ended in a failed iteration that had already replaced the
\* prompt encoding by the one of the new prompts.
C12_Witness ==
    /\ pc = "crashed" /\ err # ""
    /\ Has(tick.calls, "encode_prompts")
    /\ encoded_prompts.fg # <<>> /\ encoded_prompts = tick.gen_arg

\* An error in an iteration always ends the script: no iteration follows.
C12_ErrorEndsScript ==
    (err # "") <=> (pc = "crashed")


\* --------------------------------------------------------- CheckerPattern
Clamp(v, lo, hi) == IF v < lo THEN lo ELSE IF v > hi THEN hi ELSE v

\* C15: construction clamps the brightness and the contrast percentage each to
\* [0, 100] - below 0 counts as 0, above 100 as 100, a value in the range is
\* kept - and the two tile brightness values derived from them are integers
\* in [0, 255], the first not greater than the second unless flipped.
C15_PercentagesClamped ==
    ck.phase = "built" =>
        /\ ck.forced_brightness = Clamp(ck.brightness_pct, 0, 100)
        /\ ck.forced_contrast = Clamp(ck.contrast_pct, 0, 100)
        /\ ck.color_a \in 0..255 /\ ck.color_b \in 0..255
        /\ ~ck.flipped => ck.color_a <= ck.color_b

\* A pattern built with a negative brightness percentage is not black: the
\* percentage used is the input with its sign dropped.
C15_Witness ==
    /\ ck.phase = "built" /\ ~ck.flipped
    /\ ck.brightness_pct < 0 /\ ck.forced_brightness = -ck.brightness_pct
    /\ ck.forced_brightness = 6 * PctStep
    /\ ck.color_b > 0

\* What construction does: each percentage is replaced by its absolute value,
\* capped at 100; the tile values are integers in [0, 255], in increasing
\* order unless flipped, then in decreasing order.
C15_AbsoluteValueCapped ==
    ck.phase = "built" =>
        /\ ck.forced_brightness = Min(Abs(ck.brightness_pct), 100)
        /\ ck.forced_contrast = Min(Abs(ck.contrast_pct), 100)
        /\ ck.brightness_pct \in 0..100 => ck.forced_brightness = ck.brightness_pct
        /\ ck.contrast_pct \in 0..100 => ck.forced_contrast = ck.contrast_pct
        /\ ck.color_a \in 0..255 /\ ck.color_b \in 0..255
        /\ IF ck.flipped THEN ck.color_a >= ck.color_b ELSE ck.color_a <= ck.color_b

\* ---------------------------------------------------------------- C14
Dims(img) == <<Height(img), Width(img)>>

\* C14: in every draw(h, w) call the cached full pattern is re-drawn if and
\* only if (h, w) differs from the size of the pattern cached before the call,
\* which is the base tile's size before the first call; a call that does not
\* re-draw leaves the cached pattern as it was; and the pattern returned has
\* exactly h rows and w columns, also when h or w is below the tile size.
C14_DrawRegeneratesIffSizeDiffers ==
    [][ck'.last.op = "draw" =>
        LET h == ck'.last.frame_h
            w == ck'.last.frame_w
        IN /\ ck'.last.redrawn <=> (<<h, w>> # Dims(ck.full_pattern))
           /\ ~ck'.last.redrawn => ck'.full_pattern = ck.full_pattern
           /\ ck'.last.result_h = h /\ ck'.last.result_w = w
           /\ Dims(ck'.full_pattern) = <<h, w>>
           /\ \A y \in 1..h, x \in 1..w : ck'.full_pattern[y][x] \in {ck.color_a, ck.color_b}
           /\ ck.last.op = "none" =>
                Dims(ck.full_pattern) = <<ck.checker_size_px, ck.checker_size_px>>
           /\ ck'.base = ck.base]_vars

\* A draw that re-drew the pattern for a size below the tile's height and
\* above its width.
C14_Witness ==
    /\ ck.last.op = "draw" /\ ck.last.redrawn
    /\ ck.last.frame_h < ck.checker_size_px /\ ck.last.frame_w > ck.checker_size_px
    /\ Dims(ck.full_pattern) = <<ck.last.frame_h, ck.last.frame_w>>

\* ---------------------------------------------------------------- C13
Bit(v, i) == (v \div (2 ^ i)) % 2

\* The value of the mask given to the last superimpose call that lands on
\* output pixel (y, x), channel c, once the mask has the frame's size.
MaskAt(last, y, x, c) ==
    LET img == MaskImage(last.kind, last.ndim, last.mask_h, last.mask_w).img
        v == img[NearestExact(y, last.mask_h, last.frame_h)][NearestExact(x, last.mask_w, last.frame_w)]
    IN IF last.ndim = 3 THEN v[c] ELSE v

\* The output of a superimpose step takes, bit by bit, the frame where the
\* mask is set and the pattern of the frame's size where it is not.
SuperimposeBlends ==
    LET h == ck'.last.frame_h
        w == ck'.last.frame_w
        frame == FrameImage(h, w)
    IN /\ Dims(ck'.last.out) = <<h, w>>
       /\ Dims(ck'.full_pattern) = <<h, w>>
       /\ \A y \in 1..h, x \in 1..w, c \in 1..3 :
            LET m == MaskAt(ck'.last, y, x, c)
                p == ck'.full_pattern[y][x]
                f == frame[y][x][c]
                o == ck'.last.out[y][x][c]
            IN /\ \A i \in 0..7 : Bit(o, i) = IF Bit(m, i) = 1 THEN Bit(f, i) ELSE Bit(p, i)
               /\ m = 255 => o = f
               /\ m = 0 => o = p
       /\ ck'.base = ck.base

\* C13 as stated: blending formula, mask resized to the frame, and the cached
\* pattern left unchanged by the call.
C13_Original ==
    [][ck'.last.op = "superimpose" =>
        /\ SuperimposeBlends
        /\ ck'.full_pattern = ck.full_pattern]_vars

\* C13: superimpose returns (pattern AND NOT mask) OR (frame AND mask) for
\* every pixel and channel, the mask being resized to the frame's size first
\* and the pattern being the one of the frame's size; the cached pattern is
\* left unchanged exactly when it already has the frame's size and is
\* replaced by the pattern of the frame's size otherwise.
C13_SuperimposeBlend ==
    [][ck'.last.op = "superimpose" =>
        /\ SuperimposeBlends
        /\ ck'.last.redrawn <=> (Dims(ck.full_pattern) # <<ck'.last.frame_h, ck'.last.frame_w>>)
        /\ ~ck'.last.redrawn => ck'.full_pattern = ck.full_pattern
        /\ ck'.last.redrawn => ck'.full_pattern # ck.full_pattern]_vars

\* A superimpose with a mask larger than the frame, on a frame whose size the
\* cache did not have, whose output shows the frame in some pixel and the
\* pattern in another.
C13_Witness ==
    /\ ck.last.op = "superimpose" /\ ck.last.redrawn
    /\ ck.last.kind = "checks" /\ ck.last.mask_h # ck.last.frame_h
    /\ \E y \in 1..ck.last.frame_h, x \in 1..ck.last.frame_w :
         /\ MaskAt(ck.last, y, x, 1) = 255
         /\ \A c \in 1..3 : ck.last.out[y][x][c] = FrameImage(ck.last.frame_h, ck.last.frame_w)[y][x][c]
    /\ \E y \in 1..ck.last.frame_h, x \in 1..ck.last.frame_w :
         /\ MaskAt(ck.last, y, x, 1) = 0
         /\ \A c \in 1..3 : ck.last.out[y][x][c] = ck.full_pattern[y][x]

====
